---------------------------- MODULE Spec2Model ----------------------------
(***************************************************************************)
(* LRU cache of src/main.cpp: an index (unordered_map<int, node*>) over a  *)
(* doubly linked list bounded by two sentinel nodes.  The heap is a finite *)
(* set of addresses; every node field (key, value, prev, next) is a        *)
(* function over the addresses, and the list operations rewrite the links  *)
(* in the order the code does.                                             *)
(***************************************************************************)
EXTENDS Integers, Sequences, FiniteSets

\* ---------------------------------------------------------------- bounds
\* Keys handed to get/put are 1..MaxKey.
MaxKey == 3
\* Capacities handed to the constructor are -1..MaxCap.
MaxCap == 2

\* ------------------------------------------------------------- constants
\* nullptr
Null == 0
\* key and value given to both sentinels, and the value get returns on a miss
SentinelField == -1
Miss == -1
\* addresses of the two sentinels (the first two allocations of a cache)
head == 1
tail == 2

Keys == 1 .. MaxKey
\* the values put is called with: the int that collides with Miss, and another
Values == {-1, 10}
Caps == -1 .. MaxCap
\* At most MaxKey entries are alive at once, so MaxKey entry addresses suffice
\* and operator new never runs out.
Addr == 1 .. (MaxKey + 2)
EntryAddr == Addr \ {head, tail}

VARIABLES
    constructed,  \* the LRU_CACHE object exists
    crashed,      \* the process died dereferencing nullptr
    capacity,     \* LRU_CACHE::capacity
    cacheMap,     \* LRU_CACHE::cacheMap, a function from the present keys to addresses
    alloc,        \* the addresses holding a live node (new'ed, not deleted)
    key,          \* node::key   of every address
    value,        \* node::value of every address
    prev,         \* node::prev  of every address
    next,         \* node::next  of every address
    lastOp,       \* history: the call that ran last and what it returned
    hist,         \* history: keys by last access (get hit or put), latest first
    lastPut,      \* history: of every present key, the value of its latest put
    abs,          \* the abstract cache run beside the code: (key, value) pairs, latest first
    pc            \* main: the number of the next statement of its walkthrough

vars == <<constructed, crashed, capacity, cacheMap, alloc, key, value, prev, next,
          lastOp, hist, lastPut, abs, pc>>

\* ------------------------------------------------------------------ list
\* The links of the list, as the pair of pointer fields of every node.
links == [prev |-> prev, next |-> next]

\* double_linked_list::remove_node
remove_node(l, temp) ==
    LET before == l.prev[temp]
        after  == l.next[temp]
    IN  [l EXCEPT !.next[before] = after, !.prev[after] = before]

\* add_first without after_head->prev = temp
add_first_NoBackLink(l, temp) ==
    LET after_head == l.next[head]
        l1 == [l  EXCEPT !.prev[temp] = head]
        l2 == [l1 EXCEPT !.next[temp] = after_head]
    IN  [l2 EXCEPT !.next[head] = temp]

\* add_first without head->next = temp
add_first_NoHeadLink(l, temp) ==
    LET after_head == l.next[head]
        l1 == [l  EXCEPT !.prev[temp] = head]
        l2 == [l1 EXCEPT !.next[temp] = after_head]
    IN  [l2 EXCEPT !.prev[after_head] = temp]

\* double_linked_list::add_first
add_first(l, temp) ==
    LET after_head == l.next[head]
        l1 == [l  EXCEPT !.prev[temp] = head]
        l2 == [l1 EXCEPT !.next[temp] = after_head]
        l3 == [l2 EXCEPT !.next[head] = temp]
    IN  [l3 EXCEPT !.prev[after_head] = temp]

\* move_to_front that leaves the node where it is
move_to_front_Stays(l, temp) == l

\* move_to_front without remove_node
move_to_front_NoRemove(l, temp) == add_first(l, temp)

\* double_linked_list::move_to_front
move_to_front(l, temp) == add_first(remove_node(l, temp), temp)

\* remove_last that takes the node after the head sentinel
remove_last_TakesFirst(l) ==
    IF l.next[head] = tail
    THEN [l |-> l, last |-> Null]
    ELSE LET last == l.next[head]
         IN  [l |-> remove_node(l, last), last |-> last]

\* remove_last that returns the last node without unlinking it
remove_last_NoUnlink(l) ==
    IF l.next[head] = tail
    THEN [l |-> l, last |-> Null]
    ELSE [l |-> l, last |-> l.prev[tail]]

\* double_linked_list::remove_last: the links after the call and the node returned
remove_last(l) ==
    IF l.next[head] = tail
    THEN [l |-> l, last |-> Null]
    ELSE LET last == l.prev[tail]
         IN  [l |-> remove_node(l, last), last |-> last]

\* The nodes met following nx from n up to the tail sentinel (at most fuel of them).
RECURSIVE Walk(_, _, _, _)
Walk(nx, stop, n, fuel) ==
    IF n = stop \/ n = Null \/ fuel = 0
    THEN <<>>
    ELSE <<n>> \o Walk(nx, stop, nx[n], fuel - 1)

\* The non-sentinel nodes from the most recent to the least recent.
ListNodes == Walk(next, tail, next[head], MaxKey + 3)
\* The same nodes read backwards from the tail sentinel.
ListNodesBack == Walk(prev, head, prev[tail], MaxKey + 3)
\* The keys of the list from head to tail.
Order == [i \in 1 .. Len(ListNodes) |-> key[ListNodes[i]]]

Range(s) == {s[i] : i \in 1 .. Len(s)}
\* The number of non-sentinel nodes linked from head in the links l.
ListLen(l) == Len(Walk(l.next, tail, l.next[head], MaxKey + 3))
Max(S) == CHOOSE x \in S : \A y \in S : y <= x

\* ----------------------------------------------------------------- index
\* cacheMap.find(k) != cacheMap.end()
Found(m, k) == k \in DOMAIN m
\* an erase that is forgotten
Erase_Nothing(m, k) == m

\* cacheMap.erase(k)
Erase(m, k) == [x \in (DOMAIN m) \ {k} |-> m[x]]
\* a store that is forgotten
Store_Nothing(m, k, n) == m

\* cacheMap[k] = n
Store(m, k, n) == [x \in (DOMAIN m) \cup {k} |-> IF x = k THEN n ELSE m[x]]
\* the capacity test written with > for >=
SizeAboveCapacity(m, cap) ==
    IF cap < 0 THEN FALSE ELSE Cardinality(DOMAIN m) > cap

\* cacheMap.size() >= capacity: size() is a size_t, so the int capacity is converted
\* to unsigned; a negative capacity becomes 2^64 + capacity, which no size reaches.
SizeAtLeastCapacity(m, cap) ==
    IF cap < 0 THEN FALSE ELSE Cardinality(DOMAIN m) >= cap

\* --------------------------------------------------------------- callers
\* The statements of main that act on the cache, in order.
Script ==
    << [op |-> "new", key |-> 2, val |-> 0],
       [op |-> "put", key |-> 1, val |-> 10],
       [op |-> "put", key |-> 2, val |-> 20],
       [op |-> "get", key |-> 1, val |-> 0],
       [op |-> "put", key |-> 3, val |-> 30],
       [op |-> "get", key |-> 2, val |-> 0],
       [op |-> "put", key |-> 4, val |-> 40],
       [op |-> "get", key |-> 1, val |-> 0],
       [op |-> "get", key |-> 3, val |-> 0],
       [op |-> "get", key |-> 4, val |-> 0] >>

\* The keys a caller passes: any caller's, and main's.
AllKeys == Keys \cup {Script[i].key : i \in 2 .. Len(Script)}

\* ------------------------------------------------------------ histories
\* hist after an access to k: k is the latest, the others keep their order.
Touch(h, k) == <<k>> \o SelectSeq(h, LAMBDA x : x # k)

\* lastPut after put(k, v) leaves the index m: k's latest put is v, and the puts of a
\* key that is no longer present are forgotten.
Remember(lp, k, v, m) ==
    [j \in AllKeys |-> IF j = k THEN v ELSE IF j \in DOMAIN m THEN lp[j] ELSE 0]

\* The abstract cache: a sequence of distinct (key, value) pairs, latest first.
AbsHas(a, k) == \E i \in 1 .. Len(a) : a[i].key = k
AbsWithout(a, k) == SelectSeq(a, LAMBDA e : e.key # k)
AbsValue(a, k) == a[CHOOSE i \in 1 .. Len(a) : a[i].key = k].value
\* what the abstract get returns, and the abstract cache after it
AbsLookup(a, k) == IF AbsHas(a, k) THEN AbsValue(a, k) ELSE Miss
AbsGet(a, k) ==
    IF AbsHas(a, k)
    THEN <<[key |-> k, value |-> AbsValue(a, k)]>> \o AbsWithout(a, k)
    ELSE a
\* the abstract cache after put(k, v) with room for cap pairs
AbsPut(a, k, v, cap) ==
    IF AbsHas(a, k)
    THEN <<[key |-> k, value |-> v]>> \o AbsWithout(a, k)
    ELSE IF cap >= 0 /\ Len(a) >= cap /\ Len(a) >= 1
         THEN <<[key |-> k, value |-> v]>> \o SubSeq(a, 1, Len(a) - 1)
         ELSE <<[key |-> k, value |-> v]>> \o a

\* lastOp before any call.  evicted is the set of keys the call removed from the
\* index, freed the address it handed to delete, peak the largest number of entries
\* the list or the index held at any point of a put, and again tells a get hit that
\* follows a get hit of the same key.
NoOp == [op |-> "none", key |-> 0, val |-> 0, hit |-> FALSE, ret |-> 0,
         evicted |-> {}, freed |-> Null, peak |-> 0, again |-> FALSE]

\* ------------------------------------------------------------------ Init
\* No cache object yet: nothing is allocated.
Init ==
    /\ constructed = FALSE
    /\ crashed = FALSE
    /\ capacity = 0
    /\ cacheMap = <<>>
    /\ alloc = {}
    /\ key = [a \in Addr |-> 0]
    /\ value = [a \in Addr |-> 0]
    /\ prev = [a \in Addr |-> Null]
    /\ next = [a \in Addr |-> Null]
    /\ lastOp = NoOp
    /\ hist = <<>>
    /\ lastPut = [k \in AllKeys |-> 0]
    /\ abs = <<>>
    /\ pc = 1

\* ------------------------------------------------------------- operations
\* LRU_CACHE::LRU_CACHE(cap), with the member cacheList built first
\* (double_linked_list::double_linked_list) and cacheMap built empty.
Construct(cap) ==
    /\ ~constructed
    /\ constructed' = TRUE
    /\ alloc' = {head, tail}
    /\ key' = [key EXCEPT ![head] = SentinelField, ![tail] = SentinelField]
    /\ value' = [value EXCEPT ![head] = SentinelField, ![tail] = SentinelField]
    /\ next' = [next EXCEPT ![head] = tail]
    /\ prev' = [prev EXCEPT ![tail] = head]
    /\ capacity' = cap
    /\ cacheMap' = <<>>
    /\ lastOp' = [NoOp EXCEPT !.op = "construct"]
    /\ UNCHANGED <<crashed, hist, lastPut, abs>>

\* get that subscripts the index before testing find: on a miss cacheMap[k]
\* default-inserts a null entry for k
get_SubscriptFirst(k) ==
    /\ constructed /\ ~crashed
    /\ IF ~Found(cacheMap, k)
       THEN /\ cacheMap' = Store(cacheMap, k, Null)
            /\ lastOp' = [NoOp EXCEPT !.op = "get", !.key = k, !.ret = Miss]
            /\ UNCHANGED <<constructed, crashed, capacity, alloc, key, value, prev,
                           next, hist, lastPut, abs>>
       ELSE LET targetNode == cacheMap[k]
                l == move_to_front(links, targetNode)
            IN  /\ prev' = l.prev
                /\ next' = l.next
                /\ lastOp' = [NoOp EXCEPT !.op = "get", !.key = k, !.hit = TRUE,
                                          !.ret = value[targetNode],
                                          !.again = /\ lastOp.op = "get"
                                                    /\ lastOp.hit
                                                    /\ lastOp.key = k]
                /\ hist' = Touch(hist, k)
                /\ abs' = AbsGet(abs, k)
                /\ UNCHANGED <<constructed, crashed, capacity, cacheMap, alloc,
                               key, value, lastPut>>

\* LRU_CACHE::get(k)
get(k) ==
    /\ constructed /\ ~crashed
    /\ IF ~Found(cacheMap, k)
       THEN /\ lastOp' = [NoOp EXCEPT !.op = "get", !.key = k, !.ret = Miss]
            /\ UNCHANGED <<constructed, crashed, capacity, cacheMap, alloc, key,
                           value, prev, next, hist, lastPut, abs>>
       ELSE LET targetNode == cacheMap[k]
                l == move_to_front(links, targetNode)
            IN  /\ prev' = l.prev
                /\ next' = l.next
                /\ lastOp' = [NoOp EXCEPT !.op = "get", !.key = k, !.hit = TRUE,
                                          !.ret = value[targetNode],
                                          !.again = /\ lastOp.op = "get"
                                                    /\ lastOp.hit
                                                    /\ lastOp.key = k]
                /\ hist' = Touch(hist, k)
                /\ abs' = AbsGet(abs, k)
                /\ UNCHANGED <<constructed, crashed, capacity, cacheMap, alloc,
                               key, value, lastPut>>

\* delete n: the address is free again; what a released node holds is not observable
\* (the code never reads it), so its fields are cleared.  delete nullptr does nothing.
Release(f, n, cleared) == IF n = Null THEN f ELSE [f EXCEPT ![n] = cleared]

\* put, "Create new node" onwards: new node(k, v) at any free address a, then
\* add_first and cacheMap[k] = newNode.  l, m, al are the links, the index and the
\* allocated addresses left by the eviction step, gone the node it deleted (or Null),
\* seen the numbers of entries the list and the index held on the way here.
InsertNew(k, v, l, m, al, gone, evictedKey, seen) ==
    \E a \in Addr \ al :
        LET l0 == [prev |-> [Release(l.prev, gone, Null) EXCEPT ![a] = Null],
                   next |-> [Release(l.next, gone, Null) EXCEPT ![a] = Null]]
            l1 == add_first(l0, a)
        IN  /\ key' = [Release(key, gone, 0) EXCEPT ![a] = k]
            /\ value' = [Release(value, gone, 0) EXCEPT ![a] = v]
            /\ prev' = l1.prev
            /\ next' = l1.next
            /\ alloc' = al \cup {a}
            /\ cacheMap' = Store(m, k, a)
            /\ lastOp' = [NoOp EXCEPT !.op = "put", !.key = k, !.val = v,
                                      !.evicted = evictedKey, !.freed = gone,
                                      !.peak = Max(seen \cup
                                          {ListLen(l1), Cardinality(DOMAIN m),
                                           Cardinality(DOMAIN Store(m, k, a))})]
            /\ hist' = Touch(hist, k)
            /\ abs' = AbsPut(abs, k, v, capacity)
            /\ lastPut' = Remember(lastPut, k, v, Store(m, k, a))
            /\ UNCHANGED <<constructed, crashed, capacity>>

\* case 1 taken for the insertion of a new key: a second node for k
PutExisting_AsNew(k, v) ==
    InsertNew(k, v, links, cacheMap, alloc, Null, {},
              {Cardinality(DOMAIN cacheMap), ListLen(links)})

\* case 1 without the assignment to existingNode->value
PutExisting_KeepsValue(k, v) ==
    LET existingNode == cacheMap[k]
        l == move_to_front(links, existingNode)
    IN  /\ prev' = l.prev
        /\ next' = l.next
        /\ lastOp' = [NoOp EXCEPT !.op = "put", !.key = k, !.val = v, !.hit = TRUE,
                                  !.peak = Max({Cardinality(DOMAIN cacheMap),
                                                ListLen(links), ListLen(l)})]
        /\ hist' = Touch(hist, k)
        /\ abs' = AbsPut(abs, k, v, capacity)
        /\ lastPut' = Remember(lastPut, k, v, cacheMap)
        /\ UNCHANGED <<constructed, crashed, capacity, cacheMap, alloc, key, value>>

\* put, case 1: the key already exists
PutExisting(k, v) ==
    LET existingNode == cacheMap[k]
        l == move_to_front(links, existingNode)
    IN  /\ value' = [value EXCEPT ![existingNode] = v]
        /\ prev' = l.prev
        /\ next' = l.next
        /\ lastOp' = [NoOp EXCEPT !.op = "put", !.key = k, !.val = v, !.hit = TRUE,
                                  !.peak = Max({Cardinality(DOMAIN cacheMap),
                                                ListLen(links), ListLen(l)})]
        /\ hist' = Touch(hist, k)
        /\ abs' = AbsPut(abs, k, v, capacity)
        /\ lastPut' = Remember(lastPut, k, v, cacheMap)
        /\ UNCHANGED <<constructed, crashed, capacity, cacheMap, alloc, key>>

\* case 2 with the new node linked and indexed first and the eviction after it,
\* once the index holds more than capacity
PutNew_InsertFirst(k, v) ==
    \E a \in Addr \ alloc :
        LET l0 == [prev |-> [prev EXCEPT ![a] = Null],
                   next |-> [next EXCEPT ![a] = Null]]
            l1 == add_first(l0, a)
            m1 == Store(cacheMap, k, a)
            r  == remove_last(l1)
            over == capacity >= 0 /\ Cardinality(DOMAIN m1) > capacity
            gone == IF over THEN r.last ELSE Null
            goneKey == IF gone = a THEN k ELSE key[gone]
            l2 == IF over THEN r.l ELSE l1
            m2 == IF over THEN Erase(m1, goneKey) ELSE m1
        IN  /\ key' = Release([key EXCEPT ![a] = k], gone, 0)
            /\ value' = Release([value EXCEPT ![a] = v], gone, 0)
            /\ prev' = Release(l2.prev, gone, Null)
            /\ next' = Release(l2.next, gone, Null)
            /\ alloc' = (alloc \cup {a}) \ {gone}
            /\ cacheMap' = m2
            /\ lastOp' = [NoOp EXCEPT !.op = "put", !.key = k, !.val = v,
                                      !.evicted = IF over THEN {goneKey} ELSE {},
                                      !.freed = gone,
                                      !.peak = Max({Cardinality(DOMAIN cacheMap),
                                                    ListLen(links), ListLen(l1),
                                                    Cardinality(DOMAIN m1),
                                                    ListLen(l2),
                                                    Cardinality(DOMAIN m2)})]
            /\ hist' = Touch(hist, k)
            /\ abs' = AbsPut(abs, k, v, capacity)
            /\ lastPut' = Remember(lastPut, k, v, m2)
            /\ UNCHANGED <<constructed, crashed, capacity>>

\* put, case 2: the key is new
PutNew(k, v) ==
    IF SizeAtLeastCapacity(cacheMap, capacity)
    THEN LET r == remove_last(links)
             lruNode == r.last
         IN  IF lruNode = Null
             THEN \* lruNode->key reads through nullptr: undefined behaviour.  The
                  \* process dies, or the read yields some int and put goes on
                  \* (erase of it, delete nullptr, then the insertion).
                  \/ /\ crashed' = TRUE
                     /\ lastOp' = [NoOp EXCEPT !.op = "crash", !.key = k, !.val = v]
                     /\ UNCHANGED <<constructed, capacity, cacheMap, alloc, key,
                                    value, prev, next, hist, lastPut, abs>>
                  \/ \E g \in Keys \cup {SentinelField} :
                        InsertNew(k, v, r.l, Erase(cacheMap, g), alloc, Null, {},
                                  {Cardinality(DOMAIN cacheMap), ListLen(links),
                                   ListLen(r.l)})
             ELSE InsertNew(k, v, r.l, Erase(cacheMap, key[lruNode]),
                            alloc \ {lruNode}, lruNode, {key[lruNode]},
                            {Cardinality(DOMAIN cacheMap), ListLen(links),
                             ListLen(r.l)})
    ELSE InsertNew(k, v, links, cacheMap, alloc, Null, {},
                   {Cardinality(DOMAIN cacheMap), ListLen(links)})

\* LRU_CACHE::put(k, v)
put(k, v) ==
    /\ constructed /\ ~crashed
    /\ IF Found(cacheMap, k) THEN PutExisting(k, v) ELSE PutNew(k, v)

\* main: its next statement
main ==
    /\ pc \in 1 .. Len(Script)
    /\ LET c == Script[pc]
       IN  CASE c.op = "new" -> Construct(c.key)
             [] c.op = "put" -> put(c.key, c.val)
             [] c.op = "get" -> get(c.key)
    /\ pc' = pc + 1

\* The caller is main, running its walkthrough, or (pc stays 1) any other caller
\* of the three public operations, with any arguments.
Next ==
    \/ main
    \/ pc = 1 /\ UNCHANGED pc /\ \E cap \in Caps : Construct(cap)
    \/ pc = 1 /\ UNCHANGED pc /\ \E k \in Keys : get(k)
    \/ pc = 1 /\ UNCHANGED pc /\ \E k \in Keys, v \in Values : put(k, v)

Spec == Init /\ [][Next]_vars

\* ------------------------------------------------------- what claims read
\* The keys present in the index, and how many there are.
Present == DOMAIN cacheMap
Size == Cardinality(DOMAIN cacheMap)
\* The value stored for a present key.
Stored(k) == value[cacheMap[k]]
\* s without the elements outside S
Filter(s, S) == SelectSeq(s, LAMBDA x : x \in S)
\* Where k stands in hist (1 is the latest access).
HistPos(k) == CHOOSE i \in 1 .. Len(hist) : hist[i] = k
\* The present keys whose last access is older than that of every other present key.
Oldest == {k \in Present : \A j \in Present \ {k} : HistPos(j) < HistPos(k)}

\* C1: after every get and put, the keys of the index are the keys of the nodes
\* linked between the sentinels, and the index maps each key k to a node of the
\* list whose key field is k.
C1_Bijection ==
    constructed =>
        /\ Present = Range(Order)
        /\ \A k \in Present :
              /\ cacheMap[k] \in Range(ListNodes)
              /\ key[cacheMap[k]] = k
\* an eviction has happened and two entries are held
C1_Witness ==
    /\ lastOp.op = "put" /\ lastOp.evicted # {}
    /\ Size = 2 /\ Len(ListNodes) = 2

\* C2: with capacity >= 1 the number of entries held, in the index and in the
\* list alike, is at most capacity.
C2_CapacityBound ==
    (constructed /\ capacity >= 1) =>
        /\ Size <= capacity
        /\ Len(ListNodes) = Size
\* a put into a full cache has just completed
C2_Witness ==
    /\ capacity >= 1 /\ Size = capacity
    /\ lastOp.op = "put" /\ lastOp.evicted # {}

\* C3: a put of an absent key into a full cache that holds entries removes exactly
\* one key, the present key whose last access (get hit or put) is the oldest.
C3_EvictsLeastRecent ==
    [][(/\ lastOp'.op = "put"
        /\ lastOp'.key \notin Present
        /\ capacity >= 0 /\ Size >= capacity /\ Size >= 1)
       => /\ Cardinality(Oldest) = 1
          /\ Present \ DOMAIN cacheMap' = Oldest]_vars
\* an eviction at capacity 2 or more has taken the key accessed before the ones kept
C3_Witness ==
    /\ lastOp.op = "put" /\ lastOp.evicted # {}
    /\ capacity >= 2 /\ Size = capacity
    /\ Len(hist) > Size /\ lastOp.evicted = {hist[Size + 1]}

\* C4: a capacity below 1 is rejected by the constructor: no cache exists with it.
C4_RejectsCapacityBelowOne == constructed => capacity >= 1

\* C5: get of an absent key returns the miss indicator and changes neither the
\* index, the number of entries, a stored value nor the order of the list.
C5_MissChangesNothing ==
    [][(lastOp'.op = "get" /\ lastOp'.key \notin Present)
       => /\ lastOp'.ret = Miss
          /\ cacheMap' = cacheMap
          /\ ListNodes' = ListNodes
          /\ Order' = Order
          /\ \A j \in Present : value'[cacheMap[j]] = value[cacheMap[j]]]_vars
\* a get has missed on a cache that holds entries
C5_Witness ==
    /\ lastOp.op = "get" /\ ~lastOp.hit /\ lastOp.ret = Miss
    /\ lastOp.key \notin Present /\ Size >= 1

\* C6: put(k, v) of a present key keeps the number of entries and the present keys,
\* keeps k on the node it had, stores v for k and leaves every other value alone.
C6_UpdateNotGrow ==
    [][(lastOp'.op = "put" /\ lastOp'.key \in Present)
       => /\ DOMAIN cacheMap' = Present
          /\ Len(ListNodes') = Len(ListNodes)
          /\ Range(ListNodes') = Range(ListNodes)
          /\ cacheMap'[lastOp'.key] = cacheMap[lastOp'.key]
          /\ alloc' = alloc
          /\ value'[cacheMap'[lastOp'.key]] = lastOp'.val
          /\ \A j \in Present \ {lastOp'.key} :
                value'[cacheMap'[j]] = value[cacheMap[j]]]_vars
\* a present key has been put with a new value into a full cache
C6_Witness ==
    /\ lastOp.op = "put" /\ lastOp.hit
    /\ capacity >= 1 /\ Size = capacity
    /\ Stored(lastOp.key) = 10 /\ lastOp.val = 10

\* C7: get of a present key returns the value of the latest put of that key, and
\* changes neither the present keys, their number nor a stored value.
C7_HitReturnsLatestPut ==
    [][(lastOp'.op = "get" /\ lastOp'.key \in Present)
       => /\ lastOp'.ret = lastPut[lastOp'.key]
          /\ DOMAIN cacheMap' = Present
          /\ Len(ListNodes') = Len(ListNodes)
          /\ \A j \in Present : value'[cacheMap'[j]] = value[cacheMap[j]]]_vars
\* a get has hit a key that is not the only one held and returned its value
C7_Witness ==
    /\ lastOp.op = "get" /\ lastOp.hit /\ lastOp.ret = 10
    /\ Size >= 2

\* C8: after a get hit on k, or a put of k with capacity >= 1, k is the node after
\* the head sentinel, and the other keys still present keep their relative order.
C8_AccessedKeyMovesToFront ==
    [][(\/ lastOp'.op = "get" /\ lastOp'.key \in Present
        \/ lastOp'.op = "put" /\ capacity >= 1)
       => /\ next'[head] \in EntryAddr
          /\ key'[next'[head]] = lastOp'.key
          /\ Tail(Order') = Filter(Order, Range(Order') \ {lastOp'.key})]_vars
\* a get has hit with two or more entries held, or a put has evicted with two kept
C8_Witness ==
    \/ /\ lastOp.op = "get" /\ lastOp.hit /\ Size >= 2
       /\ Order[1] = lastOp.key /\ hist[1] = lastOp.key
    \/ /\ lastOp.op = "put" /\ lastOp.evicted # {} /\ Size >= 2
       /\ Order[1] = lastOp.key

\* C9: get returns the miss indicator exactly when the key is absent.
C9_MissIffAbsent ==
    lastOp.op = "get" => (lastOp.ret = Miss <=> ~lastOp.hit)

\* C10: every put changes the number of entries by 0 or +1 and removes at most one
\* key; a put of an absent key into a cache that is not full adds one entry and
\* removes none; into a full cache it removes exactly one and leaves size equal to
\* capacity; no call lowers the number of entries.
C10_PutSizeStep ==
    [][/\ Cardinality(DOMAIN cacheMap') >= Size
       /\ lastOp'.op = "put" =>
            /\ Cardinality(DOMAIN cacheMap') \in {Size, Size + 1}
            /\ Cardinality(Present \ DOMAIN cacheMap') <= 1
            /\ (lastOp'.key \notin Present /\ (capacity < 0 \/ Size < capacity)) =>
                  /\ Cardinality(DOMAIN cacheMap') = Size + 1
                  /\ Present \subseteq DOMAIN cacheMap'
            /\ (lastOp'.key \notin Present /\ capacity >= 0 /\ Size >= capacity) =>
                  /\ Cardinality(Present \ DOMAIN cacheMap') = 1
                  /\ Cardinality(DOMAIN cacheMap') = capacity]_vars

\* s read backwards
Reverse(s) == [i \in 1 .. Len(s) |-> s[Len(s) + 1 - i]]

\* C12: a present key leaves the index only in a put of another key that was absent,
\* on a full cache; a get and a put of a present key remove nothing; and with
\* capacity >= 1 the key put is present with the value put when put returns.
C12_AbsentOnlyByEviction ==
    [][/\ (Present \ DOMAIN cacheMap' # {}) =>
            /\ lastOp'.op = "put"
            /\ lastOp'.key \notin Present
            /\ lastOp'.key \notin Present \ DOMAIN cacheMap'
            /\ capacity >= 0 /\ Size >= capacity
       /\ (lastOp'.op = "put" /\ capacity >= 1) =>
            /\ lastOp'.key \in DOMAIN cacheMap'
            /\ value'[cacheMap'[lastOp'.key]] = lastOp'.val]_vars
\* a put has evicted a key, and the key put is present with its value
C12_Witness ==
    /\ lastOp.op = "put" /\ lastOp.evicted # {} /\ capacity >= 1
    /\ lastOp.evicted \cap Present = {}
    /\ lastOp.key \in Present /\ Stored(lastOp.key) = lastOp.val

\* C13: between calls the list is well formed: next leads from the head sentinel
\* through Size distinct non-sentinel nodes to the tail sentinel, n.next.prev = n
\* for every node n on the way, and the walk back from tail is the reverse.
C13_ListWellFormed ==
    constructed =>
        /\ Len(ListNodes) = Size
        /\ Cardinality(Range(ListNodes)) = Size
        /\ Range(ListNodes) \subseteq EntryAddr
        /\ IF ListNodes = <<>>
           THEN next[head] = tail
           ELSE next[ListNodes[Len(ListNodes)]] = tail
        /\ \A n \in {head} \cup Range(ListNodes) : prev[next[n]] = n
        /\ ListNodesBack = Reverse(ListNodes)
\* three entries are linked, after a get has relinked one
C13_Witness ==
    /\ lastOp.op = "get" /\ lastOp.hit
    /\ Len(ListNodes) = 3 /\ ListNodesBack = Reverse(ListNodes)

\* C14: the keys of the nodes of the list are pairwise distinct, and a get hit or a
\* put of a present key leaves the index entry of that key on the same node.
C14_OneEntryPerKey ==
    /\ Cardinality(Range(Order)) = Len(ListNodes)
    /\ [][/\ Cardinality(Range(Order')) = Len(ListNodes')
          /\ (lastOp'.op \in {"get", "put"} /\ lastOp'.key \in Present) =>
                /\ lastOp'.key \in DOMAIN cacheMap'
                /\ cacheMap'[lastOp'.key] = cacheMap[lastOp'.key]
                /\ key'[cacheMap'[lastOp'.key]] = lastOp'.key]_vars
\* a present key has been put again while another entry is held
C14_Witness ==
    /\ lastOp.op = "put" /\ lastOp.hit
    /\ Size >= 2 /\ Cardinality(Range(Order)) = Size

\* C16: with capacity >= 1 no call dereferences nullptr: whenever put would take
\* the eviction branch, remove_last returns a live node that is not a sentinel.
C16_EvictionFindsNode ==
    (constructed /\ capacity >= 1) =>
        /\ ~crashed
        /\ SizeAtLeastCapacity(cacheMap, capacity) =>
              /\ remove_last(links).last \in EntryAddr \cap alloc
              /\ remove_last(links).last = ListNodes[Len(ListNodes)]
\* an eviction has happened and the cache is full again
C16_Witness ==
    /\ capacity >= 1 /\ lastOp.op = "put" /\ lastOp.evicted # {}
    /\ SizeAtLeastCapacity(cacheMap, capacity)
    /\ remove_last(links).last \in EntryAddr

\* C20: remove_last on a list without entries returns null and leaves the links
\* alone; on a list with entries it returns the node before the tail sentinel,
\* unlinks it and leaves the other nodes in their order, in both directions.
C20_RemoveLast ==
    constructed =>
        LET r == remove_last(links)
            n == Len(ListNodes)
        IN  IF n = 0
            THEN /\ r.last = Null
                 /\ r.l = links
                 /\ r.l.next[head] = tail /\ r.l.prev[tail] = head
            ELSE /\ r.last = ListNodes[n]
                 /\ r.last = prev[tail]
                 /\ Walk(r.l.next, tail, r.l.next[head], MaxKey + 3)
                        = SubSeq(ListNodes, 1, n - 1)
                 /\ Walk(r.l.prev, head, r.l.prev[tail], MaxKey + 3)
                        = Reverse(SubSeq(ListNodes, 1, n - 1))
\* remove_last has run on a list of entries (an eviction), and two or more entries
\* are linked again for it to be applied to
C20_Witness ==
    /\ lastOp.op = "put" /\ lastOp.evicted # {}
    /\ Len(ListNodes) >= 2
    /\ remove_last(links).last = ListNodes[Len(ListNodes)]

\* C15: with capacity >= 1, at no point of a put, the points between its eviction
\* and its insertion included, does the list or the index hold more than capacity
\* entries: the eviction comes before the new node is linked and indexed.
C15_NeverAboveCapacityInsidePut ==
    (lastOp.op = "put" /\ capacity >= 1) => lastOp.peak <= capacity
\* a put into a full cache has evicted, and the count stayed at capacity throughout
C15_Witness ==
    /\ lastOp.op = "put" /\ lastOp.evicted # {}
    /\ capacity >= 1 /\ lastOp.peak = capacity /\ Size = capacity

\* The addresses the index and the list refer to.
Referenced == {cacheMap[k] : k \in Present} \cup Range(ListNodes)
\* The sentinels are live and in place, and nothing released is referred to.
LifetimeSafe ==
    constructed =>
        /\ {head, tail} \subseteq alloc
        /\ Referenced \subseteq alloc \cap EntryAddr
        /\ prev[head] = Null /\ next[tail] = Null
        /\ prev[tail] # Null /\ next[head] # Null

\* C17: a node is released only by the put that unlinks it and erases its key, a
\* released node was live (no second release), nothing released stays referenced by
\* the index or linked between the sentinels, and the sentinels are never released.
C17_EntryLifetime ==
    /\ LifetimeSafe
    /\ [][/\ LifetimeSafe'
          /\ alloc \ alloc' \subseteq {lastOp'.freed}
          /\ lastOp'.freed # Null =>
                /\ lastOp'.op = "put"
                /\ lastOp'.freed \in alloc \cap EntryAddr
                /\ lastOp'.freed \in Range(ListNodes)
                /\ key[lastOp'.freed] \in Present
                /\ cacheMap[key[lastOp'.freed]] = lastOp'.freed
                /\ key[lastOp'.freed] \notin DOMAIN cacheMap'
                /\ \A j \in DOMAIN cacheMap' \ {lastOp'.key} :
                      cacheMap'[j] # lastOp'.freed
                /\ lastOp'.freed \in alloc' =>
                      cacheMap'[lastOp'.key] = lastOp'.freed]_vars
\* a put has released a node whose address is free now, with two entries held
C17_Witness ==
    /\ lastOp.op = "put" /\ lastOp.freed \in EntryAddr
    /\ lastOp.freed \notin alloc /\ Size >= 2

\* C19: a get hit that follows a get hit of the same key changes neither the links,
\* the index nor a node, and returns what the first returned.
C19_RepeatedHitChangesNothing ==
    [][lastOp'.again =>
          /\ lastOp'.hit /\ lastOp'.ret = lastOp.ret
          /\ UNCHANGED <<cacheMap, alloc, key, value, prev, next>>]_vars
\* the same present key has been got twice in a row, with other entries held
C19_Witness ==
    /\ lastOp.op = "get" /\ lastOp.again /\ Size >= 2
    /\ Order[1] = lastOp.key

\* The list from head to tail as (key, value) pairs.
ListPairs ==
    [i \in 1 .. Len(ListNodes) |->
        [key |-> key[ListNodes[i]], value |-> value[ListNodes[i]]]]
\* With capacity >= 1 the list reads as the abstract cache, and so does the index.
MatchesAbstract ==
    (constructed /\ capacity >= 1) =>
        /\ ListPairs = abs
        /\ Present = {abs[i].key : i \in 1 .. Len(abs)}

\* C18: with capacity >= 1 the code refines the abstract cache: after every call the
\* list from head to tail is the abstract sequence, and every get returns what the
\* abstract get returns.
C18_RefinesAbstractCache ==
    /\ MatchesAbstract
    /\ [][/\ MatchesAbstract'
          /\ (lastOp'.op = "get" /\ capacity >= 1) =>
                lastOp'.ret = AbsLookup(abs, lastOp'.key)]_vars
\* a get has hit after an eviction left two pairs, the abstract cache alike
C18_Witness ==
    /\ capacity >= 1 /\ lastOp.op = "get" /\ lastOp.hit
    /\ Len(abs) = 2 /\ ListPairs = abs /\ Len(hist) > 2

\* What main's walkthrough says of each statement: the order after it, what a get
\* returns, and the keys a put evicts.
Expected ==
    << [order |-> <<>>,     ret |-> 0,    evicted |-> {}],
       [order |-> <<1>>,    ret |-> 0,    evicted |-> {}],
       [order |-> <<2, 1>>, ret |-> 0,    evicted |-> {}],
       [order |-> <<1, 2>>, ret |-> 10,   evicted |-> {}],
       [order |-> <<3, 1>>, ret |-> 0,    evicted |-> {2}],
       [order |-> <<3, 1>>, ret |-> Miss, evicted |-> {}],
       [order |-> <<4, 3>>, ret |-> 0,    evicted |-> {1}],
       [order |-> <<4, 3>>, ret |-> Miss, evicted |-> {}],
       [order |-> <<3, 4>>, ret |-> 30,   evicted |-> {}],
       [order |-> <<4, 3>>, ret |-> 40,   evicted |-> {}] >>

\* C11: on a cache of capacity 2, main's calls return 10, miss, miss, 30, 40,
\* put(3,30) evicts key 2, put(4,40) evicts key 1, and the order after each call is
\* [1], [2,1], [1,2], [3,1], [3,1], [4,3] (then [4,3], [3,4], [4,3]).
C11_MainWalkthrough ==
    \A i \in 1 .. Len(Script) :
        pc = i + 1 =>
            /\ ~crashed
            /\ Order = Expected[i].order
            /\ lastOp.ret = Expected[i].ret
            /\ lastOp.evicted = Expected[i].evicted
\* main has run to its end
C11_Witness ==
    /\ pc = Len(Script) + 1
    /\ lastOp.op = "get" /\ lastOp.key = 4 /\ lastOp.ret = 40

=============================================================================
